---- MODULE Spec2Model ----
(***************************************************************************)
(* Model of CamScale_pdf_scrape.py: the field extractors, the report       *)
(* parser parse_PVT_report, the assembly loop of                           *)
(* Generate_dataframe_for_CamScale_analysis and the calibration interval   *)
(* attribution of process_calibration_intervals.                           *)
(*                                                                         *)
(* Text.  A Python string is modelled as a sequence of chunks.  A chunk is *)
(* a run of blanks (SP), the separator "/" (only in the header line), or a *)
(* maximal run of other characters (a word).  A page is a sequence of      *)
(* lines.  A dict is a function from field names to values.  An extractor  *)
(* returns [err, map]: err is "none" or the Python exception it raises.    *)
(***************************************************************************)
EXTENDS Integers, Sequences, FiniteSets, TLC

VARIABLES fn, arg, out,
          fileList, policy, idx, myList, df, cal_list, err, pc

vars == <<fn, arg, out, fileList, policy, idx, myList, df, cal_list, err, pc>>

(***************************************************************************)
(* Bounds                                                                  *)
(***************************************************************************)
MaxSources == 3
MaxRows == 3

(***************************************************************************)
(* String primitives                                                       *)
(***************************************************************************)
SP == " "
SLASH == "/"

Range(s) == {s[i] : i \in 1..Len(s)}

SetMin(S) == CHOOSE x \in S : \A y \in S : x <= y
SetMax(S) == CHOOSE x \in S : \A y \in S : x >= y

\* str.strip(): drop the leading and the trailing blanks
Strip(s) ==
    LET solid == {i \in 1..Len(s) : s[i] # SP}
    IN  IF solid = {} THEN <<>> ELSE SubSeq(s, SetMin(solid), SetMax(solid))

\* str.split(): the words, blanks dropped; no word for an empty string
Split(s) == SelectSeq(s, LAMBDA c : c # SP)

\* str.split(sep): always at least one part (the empty string gives [""])
RECURSIVE SplitOn(_, _)
SplitOn(s, sep) ==
    LET at == {i \in 1..Len(s) : s[i] = sep}
    IN  IF at = {} THEN <<s>>
        ELSE <<SubSeq(s, 1, SetMin(at) - 1)>>
                 \o SplitOn(SubSeq(s, SetMin(at) + 1, Len(s)), sep)

\* " ".join(words)
RECURSIVE Join(_)
Join(ws) ==
    IF Len(ws) = 0 THEN <<>>
    ELSE IF Len(ws) = 1 THEN <<ws[1]>>
    ELSE <<ws[1], SP>> \o Join(Tail(ws))

\* int(word): the words int() accepts, with their values
IntVal == ("1" :> 1) @@ ("2" :> 2) @@ ("3" :> 3) @@ ("10" :> 10) @@ ("20" :> 20)

\* float(word): the words float() accepts, with their values in 1/100 cm
FloatVal == ("0.10" :> 10) @@ ("0.02" :> 2) @@ ("-0.05" :> 0 - 5) @@ ("0.00" :> 0)
            @@ ("1" :> 100) @@ ("2" :> 200) @@ ("3" :> 300) @@ ("10" :> 1000)
            @@ ("20" :> 2000)

\* q[-k] of a Python list
FromEnd(q, k) == q[Len(q) - k + 1]

EmptyMap == [k \in {} |-> ""]

\* a | b for dicts: the keys of both, b wins
DictMerge(a, b) == b @@ a

Ok(m) == [err |-> "none", map |-> m]
Raise(e) == [err |-> e, map |-> EmptyMap]

(***************************************************************************)
(* Field extractors                                                        *)
(***************************************************************************)
vS == <<"BRAVOS", SP, ":", SP, "Position", SP, "Verification", SP, "Report">>
cS == <<"BRAVOS", SP, ":", SP, "Position", SP, "Calibration", SP, "Report">>

\* never raises: both flags stay False on any other title
verification_or_calibration(s) ==
    Ok(("verification" :> (Strip(s) = vS)) @@ ("calibration" :> (Strip(s) = cS)))

\* q[0]..q[3] are read without a length check: IndexError below 4 parts,
\* parts after the fourth are ignored
user_room_datetime(s) ==
    LET q == SplitOn(Strip(s), SLASH)
    IN  IF Len(q) < 4 THEN Raise("IndexError")
        ELSE Ok(("User" :> Strip(q[1])) @@ ("Room" :> Strip(q[2]))
                @@ ("SerialNumber" :> Strip(q[3])) @@ ("datetime" :> Strip(q[4])))

\* int(q.split()[-1]) runs before the keyword assertion
parse_channel_number(s) ==
    LET q == Split(Strip(s))
    IN  IF Len(q) < 1 THEN Raise("IndexError")
        ELSE IF FromEnd(q, 1) \notin DOMAIN IntVal THEN Raise("ValueError")
        ELSE IF Len(q) < 2 THEN Raise("IndexError")
        ELSE IF FromEnd(q, 2) # "Channel" THEN Raise("AssertionError")
        ELSE Ok("Channel" :> IntVal[FromEnd(q, 1)])

parse_camscaleSN(s) ==
    LET q == Split(Strip(s))
    IN  IF Len(q) < 1 THEN Raise("IndexError")
        ELSE IF Len(q) < 2 THEN Raise("IndexError")
        ELSE IF FromEnd(q, 2) # "SN" THEN Raise("AssertionError")
        ELSE IF Len(q) < 3 THEN Raise("IndexError")
        ELSE IF FromEnd(q, 3) # "CamScale" THEN Raise("AssertionError")
        ELSE Ok("CamScaleSN" :> FromEnd(q, 1))

\* shared shape of parse_dummyCableLine and parse_sourceCableLine: the two
\* keyword assertions index q before the length assertion
CableLine(s, subject) ==
    LET q == Split(Strip(s))
    IN  IF Len(q) < 1 THEN Raise("IndexError")
        ELSE IF q[1] # subject THEN Raise("AssertionError")
        ELSE IF Len(q) < 2 THEN Raise("IndexError")
        ELSE IF q[2] # "Cable" THEN Raise("AssertionError")
        ELSE IF Len(q) # 6 THEN Raise("AssertionError")
        ELSE Ok(q)

parse_dummyCableLine(s) ==
    LET r == CableLine(s, "Dummy")
    IN  IF r.err # "none" THEN r
        ELSE Ok(("DummySN" :> r.map[3]) @@ ("DummyDriveCycles" :> r.map[4])
                @@ ("DummyWheelCycles" :> r.map[5])
                @@ ("DummyCableCycles" :> r.map[6]))

parse_sourceCableLine(s) ==
    LET r == CableLine(s, "Source")
    IN  IF r.err # "none" THEN r
        ELSE Ok(("SourceSN" :> r.map[3]) @@ ("SourceDriveCycles" :> r.map[4])
                @@ ("SourceWheelCycles" :> r.map[5])
                @@ ("SourceCableCycles" :> r.map[6]))

DeviationKeys == <<"DummyDeviationAt90cm_cm", "DummyDeviationAt120cm_cm",
                   "DummyDeviationAt150cm_cm", "SourceDeviationAt90cm_cm",
                   "SourceDeviationAt120cm_cm", "SourceDeviationAt150cm_cm">>

\* the six float() conversions run after both assertions
parse_measuredDeviationFromTargetPositions(s) ==
    LET q == Split(Strip(s))
    IN  IF Len(q) < 1 THEN Raise("IndexError")
        ELSE IF q[1] # "Measured" THEN Raise("AssertionError")
        ELSE IF Len(q) # 7 THEN Raise("AssertionError")
        ELSE IF \E i \in 2..7 : q[i] \notin DOMAIN FloatVal THEN Raise("ValueError")
        ELSE Ok([k \in Range(DeviationKeys) \cup {"MeasureType"} |->
                   IF k = "MeasureType" THEN "Verification"
                   ELSE FloatVal[q[1 + CHOOSE i \in 1..6 : DeviationKeys[i] = k]]])

\* shared shape of the Pre-/Post-Calibration parsers: check the label and
\* the length, then re-parse "Measured " + " ".join(q[1:]) and restamp
CalibrationDeviation(s, label, measureType) ==
    LET q == Split(Strip(s))
    IN  IF Len(q) < 1 THEN Raise("IndexError")
        ELSE IF q[1] # label THEN Raise("AssertionError")
        ELSE IF Len(q) # 7 THEN Raise("AssertionError")
        ELSE LET r == parse_measuredDeviationFromTargetPositions(
                          <<"Measured", SP>> \o Join(Tail(q)))
             IN  IF r.err # "none" THEN r
                 ELSE Ok(DictMerge(r.map, "MeasureType" :> measureType))

parse_PreCalibrationDeviationFromTargetPositions(s) ==
    CalibrationDeviation(s, "Pre-Calibration", "PreCalibration")

parse_PostCalibrationDeviationFromTargetPositions(s) ==
    CalibrationDeviation(s, "Post-Calibration", "PostCalibration")

\* reads sArr[-2]
parse_ConsoleVersion(sArr) ==
    IF Len(sArr) < 2 THEN Raise("IndexError")
    ELSE LET q == Split(Strip(FromEnd(sArr, 2)))
         IN  IF Len(q) < 1 THEN Raise("IndexError")
             ELSE IF q[1] # "Console" THEN Raise("AssertionError")
             ELSE IF Len(q) < 2 THEN Raise("IndexError")
             ELSE IF q[2] # "Version" THEN Raise("AssertionError")
             ELSE IF Len(q) # 4 THEN Raise("AssertionError")
             ELSE Ok("ConsoleVersion" :> Join(SubSeq(q, 3, Len(q))))

(***************************************************************************)
(* Report parser                                                           *)
(***************************************************************************)
\* sArr[k] (0-based) handed to an extractor: IndexError when the page has
\* no such line, before the extractor runs
OnLine(sArr, k, r) == IF Len(sArr) <= k THEN Raise("IndexError") ELSE r

\* myMap = first; myMap = myMap | second: the second call is not made when
\* the first one raises
AndThen(first, second) ==
    IF first.err # "none" THEN first
    ELSE IF second.err # "none" THEN second
    ELSE Ok(DictMerge(first.map, second.map))

\* oPDF[0].strip().split("\r\n"): blank lines around the text are dropped,
\* an all-blank page leaves the single line ""
PageLines(page) ==
    LET solid == {i \in 1..Len(page) : Strip(page[i]) # <<>>}
    IN  IF solid = {} THEN << <<>> >>
        ELSE SubSeq(page, SetMin(solid), SetMax(solid))

parse_header_PVT(sArr) ==
    AndThen(verification_or_calibration(sArr[1]),
            OnLine(sArr, 1, user_room_datetime(sArr[2])))

parse_user_SN_cycles(sArr) ==
    AndThen(AndThen(AndThen(OnLine(sArr, 5, parse_channel_number(sArr[6])),
                            OnLine(sArr, 6, parse_camscaleSN(sArr[7]))),
                    OnLine(sArr, 11, parse_dummyCableLine(sArr[12]))),
            OnLine(sArr, 12, parse_sourceCableLine(sArr[13])))

\* the second record of a calibration report: myMap|extraMap, a new dict
PostRecord_swapped(myMap, extraMap) == DictMerge(extraMap, myMap)

PostRecord(myMap, extraMap) == DictMerge(myMap, extraMap)

\* [err, myList]: myList is the function's local list when it returns or
\* raises; the caller sees it only when err = "none"
parse_PVT_report(oPDF) ==
    LET sArr == PageLines(oPDF[1])
        head == AndThen(AndThen(parse_header_PVT(sArr), parse_user_SN_cycles(sArr)),
                        parse_ConsoleVersion(sArr))
    IN  IF head.err # "none" THEN [err |-> head.err, myList |-> <<>>]
        ELSE IF head.map["verification"] /\ ~head.map["calibration"] THEN
            LET v == AndThen(head, OnLine(sArr, 17,
                         parse_measuredDeviationFromTargetPositions(sArr[18])))
            IN  IF v.err # "none" THEN [err |-> v.err, myList |-> <<>>]
                ELSE [err |-> "none", myList |-> <<v.map>>]
        ELSE IF head.map["calibration"] /\ ~head.map["verification"] THEN
            LET pre == AndThen(head, OnLine(sArr, 17,
                           parse_PreCalibrationDeviationFromTargetPositions(sArr[18])))
            IN  IF pre.err # "none" THEN [err |-> pre.err, myList |-> <<>>]
                ELSE LET extraMap == OnLine(sArr, 18,
                           parse_PostCalibrationDeviationFromTargetPositions(sArr[19]))
                     IN  IF extraMap.err # "none"
                         THEN [err |-> extraMap.err, myList |-> <<pre.map>>]
                         ELSE [err |-> "none",
                               myList |-> <<pre.map, PostRecord(pre.map, extraMap.map)>>]
        ELSE [err |-> "none", myList |-> <<>>]

(***************************************************************************)
(* Timestamps.  datetime stays a string in the table: it is compared as a  *)
(* string (StrRank: the place in lexicographic order) and converted by     *)
(* pd.to_datetime only for days_from_cal (to_datetime: minutes since       *)
(* 1900-01-01 00:00:00).                                                   *)
(***************************************************************************)
lowerBoundDate == <<"1900-01-01", SP, "00:00:00">>
upperBoundDate == <<"3000-12-31", SP, "23:59:59">>

Timestamps == << <<"2023-10-02", SP, "06:00:00">>, <<"2023-10-02", SP, "18:00:00">>,
                 <<"2023-10-03", SP, "06:00:00">>, <<"2023-10-05", SP, "06:30:00">> >>

LexOrder == <<lowerBoundDate>> \o Timestamps \o <<upperBoundDate>>

StrRank(s) == CHOOSE i \in 1..Len(LexOrder) : LexOrder[i] = s

StrGreater(a, b) == StrRank(a) > StrRank(b)
StrLessEq(a, b) == StrRank(a) <= StrRank(b)

to_datetime(s) ==
    LET minutes == <<0, 65086920, 65087640, 65088360, 65091270, 579070079>>
    IN  minutes[StrRank(s)]

\* days_from_cal is kept in units of 1/MinutesPerDay day
MinutesPerDay == 1440

\* ascending sort of [k, v] pairs by the string k; equal keys keep their order
RECURSIVE InsertByRank(_, _)
InsertByRank(sorted, x) ==
    IF sorted = <<>> THEN <<x>>
    ELSE IF StrGreater(sorted[Len(sorted)].k, x.k)
         THEN InsertByRank(SubSeq(sorted, 1, Len(sorted) - 1), x)
                  \o <<sorted[Len(sorted)]>>
         ELSE sorted \o <<x>>

RECURSIVE SortByRank(_)
SortByRank(seq) ==
    IF seq = <<>> THEN <<>>
    ELSE InsertByRank(SortByRank(SubSeq(seq, 1, Len(seq) - 1)), seq[Len(seq)])

\* list.sort() on a list of strings
sort(strings) ==
    LET sorted == SortByRank([i \in 1..Len(strings) |-> [k |-> strings[i], v |-> strings[i]]])
    IN  [i \in 1..Len(strings) |-> sorted[i].v]

sort_values_unsorted(rows) == rows

\* df.sort_values(by='datetime', ascending=True)
sort_values(rows) ==
    LET sorted == SortByRank([i \in 1..Len(rows) |-> [k |-> rows[i]["datetime"], v |-> rows[i]]])
    IN  [i \in 1..Len(rows) |-> sorted[i].v]

(***************************************************************************)
(* process_calibration_intervals                                           *)
(***************************************************************************)
NoCalibrationEvents == "AssertionError: no calibration events found!"

\* df[calEvents].datetime.to_list(), sorted
CalEvents(rows) ==
    LET cal == SelectSeq(rows, LAMBDA r : r["MeasureType"] = "PostCalibration")
    IN  sort([i \in 1..Len(cal) |-> cal[i]["datetime"]])

EpochMask_closed(datetime, startdate, enddate) ==
    ~StrGreater(startdate, datetime) /\ StrLessEq(datetime, enddate)

\* (df.datetime > startdate)*(df.datetime <= enddate) for one row
EpochMask(datetime, startdate, enddate) ==
    StrGreater(datetime, startdate) /\ StrLessEq(datetime, enddate)

\* df.assign(currentCalDateTime = cal_list[0])
AssignLower(rows, cal) ==
    [r \in 1..Len(rows) |-> DictMerge(rows[r], "currentCalDateTime" :> cal[1])]

\* for i in np.arange(1, len(cal_list)-1), from the 1-based position i on
RECURSIVE EpochLoop(_, _, _)
EpochLoop(rows, cal, i) ==
    IF i > Len(cal) - 1 THEN rows
    ELSE EpochLoop([r \in 1..Len(rows) |->
                       IF EpochMask(rows[r]["datetime"], cal[i], cal[i + 1])
                       THEN [rows[r] EXCEPT !["currentCalDateTime"] = cal[i]]
                       ELSE rows[r]],
                   cal, i + 1)

SelfMask_anyType(row, c) == row["currentCalDateTime"] = c

\* (df.MeasureType == 'PostCalibration')*(df.currentCalDateTime == i) for one row
SelfMask(row, c) == row["MeasureType"] = "PostCalibration" /\ row["currentCalDateTime"] = c

\* for i in cal_list: the column is rewritten while the loop runs
RECURSIVE SelfLoop(_, _, _)
SelfLoop(rows, cal, i) ==
    IF i > Len(cal) THEN rows
    ELSE SelfLoop([r \in 1..Len(rows) |->
                      IF SelfMask(rows[r], cal[i])
                      THEN [rows[r] EXCEPT !["currentCalDateTime"] = rows[r]["datetime"]]
                      ELSE rows[r]],
                  cal, i + 1)

DaysFromCal_reversed(row) == to_datetime(row["currentCalDateTime"]) - to_datetime(row["datetime"])

\* (to_datetime(datetime) - to_datetime(currentCalDateTime)).total_seconds()/(60*60*24)
DaysFromCal(row) == to_datetime(row["datetime"]) - to_datetime(row["currentCalDateTime"])

CollectCalEvents ==
    /\ pc = "intervals"
    /\ IF CalEvents(df) = <<>>
       THEN /\ err' = NoCalibrationEvents
            /\ pc' = "failed"
            /\ UNCHANGED cal_list
       ELSE /\ cal_list' = <<lowerBoundDate>> \o CalEvents(df) \o <<upperBoundDate>>
            /\ pc' = "epochs"
            /\ UNCHANGED err
    /\ UNCHANGED <<fn, arg, out, fileList, policy, idx, myList, df>>

AttributeEpochs ==
    /\ pc = "epochs"
    /\ df' = EpochLoop(AssignLower(df, cal_list), cal_list, 2)
    /\ pc' = "reattribute"
    /\ UNCHANGED <<fn, arg, out, fileList, policy, idx, myList, cal_list, err>>

ReattributePostCal ==
    /\ pc = "reattribute"
    /\ df' = SelfLoop(df, cal_list, 1)
    /\ pc' = "days"
    /\ UNCHANGED <<fn, arg, out, fileList, policy, idx, myList, cal_list, err>>

ComputeDays ==
    /\ pc = "days"
    /\ df' = [r \in 1..Len(df) |-> DictMerge(df[r], "days_from_cal" :> DaysFromCal(df[r]))]
    /\ pc' = "returned"
    /\ UNCHANGED <<fn, arg, out, fileList, policy, idx, myList, cal_list, err>>

\* a direct call of process_calibration_intervals on a table in any row order
MeasureTypes == {"Verification", "PreCalibration", "PostCalibration"}

RowKinds == {("datetime" :> Timestamps[t]) @@ ("MeasureType" :> m) :
                 t \in 1..Len(Timestamps), m \in MeasureTypes}

Tables == UNION {[1..n -> RowKinds] : n \in 1..MaxRows}

InitIntervals ==
    /\ fn = "process_calibration_intervals"
    /\ arg = <<>>
    /\ out = <<>>
    /\ fileList = <<>>
    /\ policy = "abort-on-first-error"
    /\ idx = 0
    /\ myList = <<>>
    /\ df \in Tables
    /\ cal_list = <<>>
    /\ err = "none"
    /\ pc = "intervals"

NextIntervals == CollectCalEvents \/ AttributeEpochs \/ ReattributePostCal \/ ComputeDays

SpecIntervals == InitIntervals /\ [][NextIntervals]_vars

(***************************************************************************)
(* Report pages                                                            *)
(***************************************************************************)
Filler == <<"--">>

\* the fixed layout: title 0, header 1, channel 5, CamScale 6, cables 11 and
\* 12, deviation lines from 17, console version second to last
Page(title, header, channel, camscale, dummy, source, deviations, console) ==
    <<title, header, Filler, Filler, Filler, channel, camscale, Filler, Filler,
      Filler, Filler, dummy, source, Filler, Filler, Filler, Filler>>
        \o deviations \o <<console, Filler>>

HeaderLine(ts) ==
    <<"PhysA", SP, SLASH, SP, "Room", SP, "1", SP, SLASH, SP, "SN100", SP, SLASH, SP>> \o ts

ChannelLine == Join(<<"Selected", "Channel", "1">>)
CamScaleLine == Join(<<"CamScale", "SN", "CS77">>)
DummyLine == Join(<<"Dummy", "Cable", "D01", "10", "20", "3">>)
SourceLine == Join(<<"Source", "Cable", "S01", "1", "2", "3">>)
ConsoleLine == Join(<<"Console", "Version", "1.2", "b3">>)
MeasuredLine == Join(<<"Measured", "0.10", "0.02", "-0.05", "0.00", "0.10", "0.02">>)
PreLine == Join(<<"Pre-Calibration", "0.10", "0.10", "-0.05", "0.02", "0.02", "1">>)
PostLine == Join(<<"Post-Calibration", "0.00", "0.00", "0.02", "0.00", "-0.05", "0.00">>)
OtherTitle == <<"BRAVOS", SP, ":", SP, "Treatment", SP, "Report">>

VerificationPDF(ts) ==
    <<Page(vS, HeaderLine(ts), ChannelLine, CamScaleLine, DummyLine, SourceLine,
           <<MeasuredLine>>, ConsoleLine)>>

CalibrationPDF(ts) ==
    <<Page(cS, HeaderLine(ts), ChannelLine, CamScaleLine, DummyLine, SourceLine,
           <<PreLine, PostLine>>, ConsoleLine)>>

\* a readable report of another kind
UnknownTitlePDF ==
    <<Page(OtherTitle, HeaderLine(Timestamps[1]), ChannelLine, CamScaleLine, DummyLine,
           SourceLine, <<MeasuredLine>>, ConsoleLine)>>

\* a calibration report whose Post-Calibration line has a non-numeric value
BadPostLinePDF ==
    <<Page(cS, HeaderLine(Timestamps[2]), ChannelLine, CamScaleLine, DummyLine, SourceLine,
           <<PreLine, Join(<<"Post-Calibration", "0.00", "0.00", "n/a", "0.00", "0.00", "0.00">>)>>,
           ConsoleLine)>>

\* a verification report whose cable line names another subject
BadCablePDF ==
    <<Page(vS, HeaderLine(Timestamps[3]), ChannelLine, CamScaleLine,
           Join(<<"Dummy", "Wire", "D01", "1", "2", "3">>), SourceLine,
           <<MeasuredLine>>, ConsoleLine)>>

\* a page cut after the header
ShortPDF == << <<vS, HeaderLine(Timestamps[1])>> >>

ValidSources ==
    {VerificationPDF(Timestamps[t]) : t \in {1, 3, 4}}
        \cup {CalibrationPDF(Timestamps[t]) : t \in {1, 2}}

Sources == ValidSources \cup {UnknownTitlePDF, BadPostLinePDF, BadCablePDF, ShortPDF}

(***************************************************************************)
(* Generate_dataframe_for_CamScale_analysis                                *)
(***************************************************************************)
LoopBody_partial(list, pdf) ==
    [err |-> parse_PVT_report(pdf).err, myList |-> list \o parse_PVT_report(pdf).myList]

\* one pass of the loop body on the next source: parse, then extend
LoopBody(list, pdf) ==
    LET m == parse_PVT_report(pdf)
    IN  IF m.err # "none" THEN [err |-> m.err, myList |-> list]
        ELSE [err |-> "none", myList |-> list \o m.myList]

ParseNext ==
    /\ pc = "loop"
    /\ idx < Len(fileList)
    /\ LET r == LoopBody(myList, fileList[idx + 1])
       IN  /\ myList' = r.myList
           /\ err' = r.err
           /\ IF r.err # "none"
              THEN pc' = "failed" /\ UNCHANGED idx
              ELSE pc' = "loop" /\ idx' = idx + 1
    /\ UNCHANGED <<fn, arg, out, fileList, policy, df, cal_list>>

\* pd.DataFrame(myList).sort_values(by='datetime'): a frame built from an
\* empty list has no column 'datetime'
SortFrame ==
    /\ pc = "loop"
    /\ idx = Len(fileList)
    /\ IF myList = <<>>
       THEN /\ err' = "KeyError"
            /\ pc' = "failed"
            /\ UNCHANGED df
       ELSE /\ df' = sort_values(myList)
            /\ pc' = "intervals"
            /\ UNCHANGED err
    /\ UNCHANGED <<fn, arg, out, fileList, policy, idx, myList, cal_list>>

\* the policy the caller would select; the function has no parameter for it
Policies == {"abort-on-first-error", "skip-and-collect"}

Init ==
    /\ fn = "Generate_dataframe_for_CamScale_analysis"
    /\ arg = <<>>
    /\ out = <<>>
    /\ fileList \in UNION {[1..n -> Sources] : n \in 0..MaxSources}
    /\ policy \in Policies
    /\ idx = 0
    /\ myList = <<>>
    /\ df = <<>>
    /\ cal_list = <<>>
    /\ err = "none"
    /\ pc = "loop"

Next ==
    \/ ParseNext
    \/ SortFrame
    \/ CollectCalEvents
    \/ AttributeEpochs
    \/ ReattributePostCal
    \/ ComputeDays

Spec == Init /\ [][Next]_vars

(***************************************************************************)
(* Single calls of the extractors and of parse_PVT_report                  *)
(***************************************************************************)
Alphabet == {"Dummy", "Cable", "Wire", "Channel", "SN", "Measured", "Version", "1", "0.10", "n/a"}

\* the words of a well-formed line and its neighbours: every proper prefix
\* (the empty line included), one word more, one word replaced
Variants(words) ==
    {words}
        \cup {SubSeq(words, 1, n) : n \in 0..(Len(words) - 1)}
        \cup {words \o <<w>> : w \in Alphabet}
        \cup {[words EXCEPT ![i] = w] : i \in 1..Len(words), w \in Alphabet}

\* the same words as text, bare or with blanks around
LinesOf(words) == {Join(v) : v \in Variants(words)}
                      \cup {<<SP>> \o Join(v) \o <<SP>> : v \in Variants(words)}

HeaderParts == << <<"PhysA">>, <<"Room", SP, "1">>, <<"SN100">>, Timestamps[1] >>

\* the parts joined by " / "
RECURSIVE JoinSlash(_)
JoinSlash(parts) ==
    IF Len(parts) = 0 THEN <<>>
    ELSE IF Len(parts) = 1 THEN parts[1]
    ELSE parts[1] \o <<SP, SLASH, SP>> \o JoinSlash(Tail(parts))

HeaderLines ==
    {JoinSlash(SubSeq(HeaderParts, 1, n)) : n \in 0..4}
        \cup {JoinSlash(HeaderParts \o << <<"extra">> >>), <<SP>> \o JoinSlash(HeaderParts) \o <<SP>>}

ExtractorArgs ==
    [user_room_datetime |-> HeaderLines,
     parse_channel_number |-> LinesOf(<<"Selected", "Channel", "1">>),
     parse_camscaleSN |-> LinesOf(<<"CamScale", "SN", "CS77">>),
     parse_dummyCableLine |-> LinesOf(<<"Dummy", "Cable", "D01", "10", "20", "3">>),
     parse_sourceCableLine |-> LinesOf(<<"Source", "Cable", "S01", "1", "2", "3">>),
     parse_measuredDeviationFromTargetPositions |->
         LinesOf(<<"Measured", "0.10", "0.02", "-0.05", "0.00", "0.10", "0.02">>),
     parse_PreCalibrationDeviationFromTargetPositions |->
         LinesOf(<<"Pre-Calibration", "0.10", "0.10", "-0.05", "0.02", "0.02", "1">>),
     parse_PostCalibrationDeviationFromTargetPositions |->
         LinesOf(<<"Post-Calibration", "0.00", "0.00", "0.02", "0.00", "-0.05", "0.00">>),
     parse_ConsoleVersion |->
         {<<l, Filler>> : l \in LinesOf(<<"Console", "Version", "1.2", "b3">>)}
             \cup {<<ConsoleLine>>, <<ConsoleLine, Filler, Filler>>}]

\* report pages: every combination of a title, a header, a line 17, a line
\* 18 (or none) and one structural variant
TitleOptions == {vS, cS, OtherTitle, <<SP>> \o cS \o <<SP>>, <<>>}
HeaderOptions == {HeaderLine(Timestamps[1]), HeaderLine(Timestamps[3]),
                  JoinSlash(SubSeq(HeaderParts, 1, 3))}
Line17Options == {MeasuredLine, PreLine, PostLine,
                  Join(<<"Measured", "0.10", "0.02", "n/a", "0.00", "0.10", "0.02">>)}
Line18Options == {<<PostLine>>, <<PreLine>>, <<>>,
                  <<Join(<<"Post-Calibration", "0.00", "0.00", "0.02", "0.00", "-0.05">>)>>}
Shapes == {"plain", "blank lines around", "no footer", "wrong channel keyword"}

ShapedPage(title, header, l17, l18, shape) ==
    LET channel == IF shape = "wrong channel keyword"
                   THEN Join(<<"Selected", "Chan", "1">>) ELSE ChannelLine
        page == Page(title, header, channel, CamScaleLine, DummyLine, SourceLine,
                     <<l17>> \o l18, ConsoleLine)
    IN  IF shape = "blank lines around" THEN << <<>>, <<SP>> >> \o page \o << <<SP>> >>
        ELSE IF shape = "no footer" THEN SubSeq(page, 1, Len(page) - 1)
        ELSE page

ReportArgs ==
    {<<ShapedPage(t, h, l17, l18, sh)>> :
        t \in TitleOptions, h \in HeaderOptions, l17 \in Line17Options,
        l18 \in Line18Options, sh \in Shapes}

InitApply ==
    /\ \/ /\ fn \in DOMAIN ExtractorArgs
          /\ arg \in ExtractorArgs[fn]
       \/ /\ fn = "parse_PVT_report"
          /\ arg \in ReportArgs
    /\ out = <<>>
    /\ fileList = <<>>
    /\ policy = "abort-on-first-error"
    /\ idx = 0
    /\ myList = <<>>
    /\ df = <<>>
    /\ cal_list = <<>>
    /\ err = "none"
    /\ pc = "call"

Return(name, result) ==
    /\ pc = "call"
    /\ fn = name
    /\ out' = result
    /\ pc' = "applied"
    /\ UNCHANGED <<fn, arg, fileList, policy, idx, myList, df, cal_list, err>>

Call_user_room_datetime == Return("user_room_datetime", user_room_datetime(arg))
Call_parse_channel_number == Return("parse_channel_number", parse_channel_number(arg))
Call_parse_camscaleSN == Return("parse_camscaleSN", parse_camscaleSN(arg))
Call_parse_dummyCableLine == Return("parse_dummyCableLine", parse_dummyCableLine(arg))
Call_parse_sourceCableLine == Return("parse_sourceCableLine", parse_sourceCableLine(arg))
Call_parse_measuredDeviation ==
    Return("parse_measuredDeviationFromTargetPositions",
           parse_measuredDeviationFromTargetPositions(arg))
Call_parse_PreCalibrationDeviation ==
    Return("parse_PreCalibrationDeviationFromTargetPositions",
           parse_PreCalibrationDeviationFromTargetPositions(arg))
Call_parse_PostCalibrationDeviation ==
    Return("parse_PostCalibrationDeviationFromTargetPositions",
           parse_PostCalibrationDeviationFromTargetPositions(arg))
Call_parse_ConsoleVersion == Return("parse_ConsoleVersion", parse_ConsoleVersion(arg))
Call_parse_PVT_report == Return("parse_PVT_report", parse_PVT_report(arg))

NextApply ==
    \/ Call_user_room_datetime
    \/ Call_parse_channel_number
    \/ Call_parse_camscaleSN
    \/ Call_parse_dummyCableLine
    \/ Call_parse_sourceCableLine
    \/ Call_parse_measuredDeviation
    \/ Call_parse_PreCalibrationDeviation
    \/ Call_parse_PostCalibrationDeviation
    \/ Call_parse_ConsoleVersion
    \/ Call_parse_PVT_report

SpecApply == InitApply /\ [][NextApply]_vars

(***************************************************************************)
(* The line grammar of the field extractors, as documented                 *)
(***************************************************************************)
Words(s) == Split(Strip(s))

WellFormedCable(s, subject) ==
    Len(Words(s)) = 6 /\ Words(s)[1] = subject /\ Words(s)[2] = "Cable"

WellFormedDeviation(s, label) ==
    /\ Len(Words(s)) = 7
    /\ Words(s)[1] = label
    /\ \A i \in 2..7 : Words(s)[i] \in DOMAIN FloatVal

WellFormed(name, a) ==
    CASE name = "user_room_datetime" -> Len(SplitOn(Strip(a), SLASH)) = 4
      [] name = "parse_channel_number" ->
            /\ Len(Words(a)) >= 2
            /\ FromEnd(Words(a), 1) \in DOMAIN IntVal
            /\ FromEnd(Words(a), 2) = "Channel"
      [] name = "parse_camscaleSN" ->
            /\ Len(Words(a)) >= 3
            /\ FromEnd(Words(a), 2) = "SN"
            /\ FromEnd(Words(a), 3) = "CamScale"
      [] name = "parse_dummyCableLine" -> WellFormedCable(a, "Dummy")
      [] name = "parse_sourceCableLine" -> WellFormedCable(a, "Source")
      [] name = "parse_measuredDeviationFromTargetPositions" -> WellFormedDeviation(a, "Measured")
      [] name = "parse_PreCalibrationDeviationFromTargetPositions" ->
            WellFormedDeviation(a, "Pre-Calibration")
      [] name = "parse_PostCalibrationDeviationFromTargetPositions" ->
            WellFormedDeviation(a, "Post-Calibration")
      [] name = "parse_ConsoleVersion" ->
            /\ Len(a) >= 2
            /\ Len(Words(FromEnd(a, 2))) = 4
            /\ Words(FromEnd(a, 2))[1] = "Console"
            /\ Words(FromEnd(a, 2))[2] = "Version"

\* the header, identity and console lines of a page follow the grammar
WellFormedHead(sArr) ==
    /\ Len(sArr) >= 18
    /\ WellFormed("user_room_datetime", sArr[2])
    /\ WellFormed("parse_channel_number", sArr[6])
    /\ WellFormed("parse_camscaleSN", sArr[7])
    /\ WellFormed("parse_dummyCableLine", sArr[12])
    /\ WellFormed("parse_sourceCableLine", sArr[13])
    /\ WellFormed("parse_ConsoleVersion", sArr)

ValidVerificationReport(sArr) ==
    /\ Strip(sArr[1]) = vS
    /\ WellFormedHead(sArr)
    /\ WellFormedDeviation(sArr[18], "Measured")

ValidCalibrationReport(sArr) ==
    /\ Strip(sArr[1]) = cS
    /\ WellFormedHead(sArr)
    /\ Len(sArr) >= 19
    /\ WellFormedDeviation(sArr[18], "Pre-Calibration")
    /\ WellFormedDeviation(sArr[19], "Post-Calibration")

\* the six deviation values written on a deviation line, in 1/100 cm
ValuesOn(line) == [i \in 1..6 |-> FloatVal[Words(line)[i + 1]]]

Deviations(record) == [i \in 1..6 |-> record[DeviationKeys[i]]]

IdentityKeys == {"User", "Room", "SerialNumber", "datetime", "Channel", "CamScaleSN",
                 "DummySN", "DummyDriveCycles", "DummyWheelCycles", "DummyCableCycles",
                 "SourceSN", "SourceDriveCycles", "SourceWheelCycles", "SourceCableCycles",
                 "ConsoleVersion"}

(***************************************************************************)
(* C1: on a valid report parse_PVT_report returns one Verification record  *)
(* (verification true, calibration false) for a verification title, and    *)
(* for a calibration title two records, PreCalibration then                *)
(* PostCalibration, both calibration = true, equal on every field but the  *)
(* six deviations and MeasureType; the first carries the values of line    *)
(* 17, the second those of line 18.                                        *)
(***************************************************************************)
C1_RecordsPerReportKind ==
    (pc = "applied" /\ fn = "parse_PVT_report") =>
        LET sArr == PageLines(arg[1])
            recs == out.myList
        IN  /\ ValidVerificationReport(sArr) =>
                /\ out.err = "none"
                /\ Len(recs) = 1
                /\ recs[1]["MeasureType"] = "Verification"
                /\ recs[1]["verification"] = TRUE
                /\ recs[1]["calibration"] = FALSE
                /\ Deviations(recs[1]) = ValuesOn(sArr[18])
            /\ ValidCalibrationReport(sArr) =>
                /\ out.err = "none"
                /\ Len(recs) = 2
                /\ recs[1]["MeasureType"] = "PreCalibration"
                /\ recs[2]["MeasureType"] = "PostCalibration"
                /\ recs[1]["calibration"] = TRUE /\ recs[2]["calibration"] = TRUE
                /\ recs[1]["verification"] = FALSE /\ recs[2]["verification"] = FALSE
                /\ DOMAIN recs[1] = DOMAIN recs[2]
                /\ IdentityKeys \subseteq DOMAIN recs[1]
                /\ \A k \in DOMAIN recs[1] \ (Range(DeviationKeys) \cup {"MeasureType"}) :
                       recs[1][k] = recs[2][k]
                /\ Deviations(recs[1]) = ValuesOn(sArr[18])
                /\ Deviations(recs[2]) = ValuesOn(sArr[19])

C1_Witness ==
    /\ pc = "applied" /\ fn = "parse_PVT_report"
    /\ ValidCalibrationReport(PageLines(arg[1]))
    /\ Len(out.myList) = 2
    /\ out.myList[1]["datetime"] = Timestamps[3]
    /\ Deviations(out.myList[1]) = <<10, 10, 0 - 5, 2, 2, 100>>
    /\ Deviations(out.myList[2]) = <<0, 0, 2, 0, 0 - 5, 0>>

(***************************************************************************)
(* C6: for a title line that matches neither known title parse_PVT_report  *)
(* fails (AmbiguousReportKindError) and never returns a record list, empty *)
(* or otherwise.                                                           *)
(***************************************************************************)
C6_UnknownTitleFails ==
    (/\ pc = "applied" /\ fn = "parse_PVT_report"
     /\ Strip(PageLines(arg[1])[1]) \notin {vS, cS})
        => out.err # "none"

(***************************************************************************)
(* C7: a line that violates an extractor's grammar makes the extractor     *)
(* fail with the one validation error (FormatError, which the code raises  *)
(* as AssertionError) and with no other error kind.                        *)
(***************************************************************************)
FormatError == "AssertionError"

C7_MalformedLineIsFormatError ==
    (pc = "applied" /\ fn \in DOMAIN ExtractorArgs /\ ~WellFormed(fn, arg))
        => out.err = FormatError

(***************************************************************************)
(* Calibration interval attribution: what each row should be attributed to *)
(***************************************************************************)
IsPostCal(row) == row["MeasureType"] = "PostCalibration"

\* the PostCalibration datetimes of the table strictly before a datetime
EarlierCalibrations(rows, datetime) ==
    {rows[j]["datetime"] : j \in {i \in 1..Len(rows) :
        IsPostCal(rows[i]) /\ StrRank(rows[i]["datetime"]) < StrRank(datetime)}}

PrecedingCalibration(rows, datetime) ==
    IF EarlierCalibrations(rows, datetime) = {} THEN lowerBoundDate
    ELSE CHOOSE c \in EarlierCalibrations(rows, datetime) :
             \A e \in EarlierCalibrations(rows, datetime) : StrRank(e) <= StrRank(c)

(***************************************************************************)
(* C2: after process_calibration_intervals on a table with at least one    *)
(* PostCalibration row, every other row has currentCalDateTime equal to    *)
(* the greatest PostCalibration datetime strictly before its own datetime, *)
(* or to the lower sentinel when there is none; a row dated exactly at a   *)
(* calibration belongs to the epoch before it.                             *)
(***************************************************************************)
C2_PrecedingEpoch ==
    pc = "returned" =>
        \A i \in 1..Len(df) :
            ~IsPostCal(df[i]) =>
                df[i]["currentCalDateTime"] = PrecedingCalibration(df, df[i]["datetime"])

C2_Witness ==
    /\ pc = "returned"
    /\ \E i, j, k \in 1..Len(df) :
         /\ df[i]["MeasureType"] = "PreCalibration"
         /\ IsPostCal(df[j]) /\ df[j]["datetime"] = df[i]["datetime"]
         /\ IsPostCal(df[k]) /\ StrRank(df[k]["datetime"]) < StrRank(df[i]["datetime"])
         /\ df[i]["currentCalDateTime"] = df[k]["datetime"]

(***************************************************************************)
(* C3: after the re-attribution step every PostCalibration row has         *)
(* currentCalDateTime equal to its own datetime, also when several         *)
(* PostCalibration rows share a datetime, and the step changes no other    *)
(* row.                                                                    *)
(***************************************************************************)
C3_PostCalAnchorsItself ==
    /\ [](pc \in {"days", "returned"} =>
            \A i \in 1..Len(df) :
                IsPostCal(df[i]) => df[i]["currentCalDateTime"] = df[i]["datetime"])
    /\ [][pc = "reattribute" =>
            /\ Len(df') = Len(df)
            /\ \A i \in 1..Len(df) : ~IsPostCal(df[i]) => df'[i] = df[i]]_vars

C3_Witness ==
    /\ pc = "returned"
    /\ \E i, j, k \in 1..Len(df) :
         /\ i # j
         /\ IsPostCal(df[i]) /\ IsPostCal(df[j]) /\ IsPostCal(df[k])
         /\ df[i]["datetime"] = df[j]["datetime"]
         /\ StrRank(df[k]["datetime"]) < StrRank(df[i]["datetime"])
         /\ df[i]["currentCalDateTime"] = df[i]["datetime"]
         /\ df[j]["currentCalDateTime"] = df[j]["datetime"]

(***************************************************************************)
(* C4: in the returned table days_from_cal is datetime minus               *)
(* currentCalDateTime in days and is never negative: zero for a            *)
(* PostCalibration row, positive for every other row, in any row order.    *)
(***************************************************************************)
C4_DaysFromCalNonNegative ==
    pc = "returned" =>
        \A i \in 1..Len(df) :
            /\ df[i]["days_from_cal"] =
                   to_datetime(df[i]["datetime"]) - to_datetime(df[i]["currentCalDateTime"])
            /\ StrLessEq(df[i]["currentCalDateTime"], df[i]["datetime"])
            /\ IsPostCal(df[i]) => df[i]["days_from_cal"] = 0
            /\ ~IsPostCal(df[i]) => df[i]["days_from_cal"] > 0

\* rows out of time order; half a day and 65086920/1440 days are both seen
C4_Witness ==
    /\ pc = "returned"
    /\ Len(df) = 3
    /\ df[1]["datetime"] = Timestamps[2] /\ df[1]["MeasureType"] = "Verification"
    /\ df[1]["days_from_cal"] * 2 = MinutesPerDay
    /\ df[2]["datetime"] = Timestamps[1] /\ IsPostCal(df[2])
    /\ df[2]["days_from_cal"] = 0
    /\ df[3]["datetime"] = Timestamps[1] /\ df[3]["MeasureType"] = "PreCalibration"
    /\ df[3]["days_from_cal"] = 65086920

(***************************************************************************)
(* What each source should contribute to the table                         *)
(***************************************************************************)
Parses(pdf) == parse_PVT_report(pdf).err = "none"

TitleOf(pdf) == Strip(PageLines(pdf[1])[1])

\* one record for a verification report, two for a calibration report
FullCount(pdf) == IF TitleOf(pdf) = vS THEN 1 ELSE IF TitleOf(pdf) = cS THEN 2 ELSE 0

RECURSIVE SumFullCount(_, _)
SumFullCount(files, n) == IF n = 0 THEN 0 ELSE SumFullCount(files, n - 1) + FullCount(files[n])

Terminated == pc \in {"failed", "returned"}

Annotated(row) == {"currentCalDateTime", "days_from_cal"} \cap DOMAIN row # {}

(***************************************************************************)
(* C5: when the assembled table has no PostCalibration record the run      *)
(* fails with NoCalibrationEventsError before any currentCalDateTime or    *)
(* days_from_cal is assigned, and no table is returned.                    *)
(***************************************************************************)
C5_NoCalibrationEventsError ==
    (idx = Len(fileList) /\ \A i \in 1..Len(myList) : ~IsPostCal(myList[i])) =>
        /\ \A i \in 1..Len(df) : ~Annotated(df[i])
        /\ Terminated => (pc = "failed" /\ err = NoCalibrationEvents)

(***************************************************************************)
(* C8: the caller selects the error policy.  Under abort-on-first-error    *)
(* the first failing source ends the run without a table.  Under           *)
(* skip-and-collect a failing source contributes nothing and every other   *)
(* source is still parsed, its records reaching the final table.           *)
(***************************************************************************)
C8_ErrorPolicy ==
    (Terminated /\ \E k \in 1..Len(fileList) : ~Parses(fileList[k])) =>
        /\ policy = "abort-on-first-error" => (pc = "failed" /\ df = <<>>)
        /\ (policy = "skip-and-collect"
              /\ \E k \in 1..Len(fileList) : fileList[k] \in ValidSources /\ TitleOf(fileList[k]) = cS)
             => /\ pc = "returned"
                /\ Len(df) = SumFullCount(SelectSeq(fileList, Parses),
                                          Len(SelectSeq(fileList, Parses)))

(***************************************************************************)
(* C9: for valid sources in any input order the returned table is sorted   *)
(* by datetime ascending, holds one record per verification report and two *)
(* per calibration report, none lost or duplicated, every record has       *)
(* currentCalDateTime and days_from_cal, and the attribution steps neither *)
(* reorder nor add nor drop rows.                                          *)
(***************************************************************************)
RowsOfKind(rows, ts, kind) ==
    Cardinality({i \in 1..Len(rows) : rows[i]["datetime"] = ts /\ rows[i]["MeasureType"] = kind})

ReportsOfKind(files, ts, title) ==
    Cardinality({k \in 1..Len(files) :
        TitleOf(files[k]) = title /\ files[k][1][2] = HeaderLine(ts)})

RowsKept ==
    pc \in {"intervals", "epochs", "reattribute", "days"} =>
        /\ Len(df') = Len(df)
        /\ \A i \in 1..Len(df) :
             \A k \in (DOMAIN df[i]) \ {"currentCalDateTime"} : df'[i][k] = df[i][k]

C9_SortedCompleteTable ==
    /\ [](pc = "returned" /\ (\A k \in 1..Len(fileList) : fileList[k] \in ValidSources) =>
            /\ \A i \in 1..(Len(df) - 1) :
                   StrLessEq(df[i]["datetime"], df[i + 1]["datetime"])
            /\ Len(df) = SumFullCount(fileList, Len(fileList))
            /\ \A t \in 1..Len(Timestamps) :
                 /\ RowsOfKind(df, Timestamps[t], "Verification")
                        = ReportsOfKind(fileList, Timestamps[t], vS)
                 /\ RowsOfKind(df, Timestamps[t], "PreCalibration")
                        = ReportsOfKind(fileList, Timestamps[t], cS)
                 /\ RowsOfKind(df, Timestamps[t], "PostCalibration")
                        = ReportsOfKind(fileList, Timestamps[t], cS)
            /\ \A i \in 1..Len(df) :
                   {"currentCalDateTime", "days_from_cal"} \subseteq DOMAIN df[i])
    /\ [][RowsKept]_vars

\* two verification reports and one calibration report, the latest first
C9_Witness ==
    /\ pc = "returned"
    /\ fileList = <<VerificationPDF(Timestamps[4]), CalibrationPDF(Timestamps[2]),
                    VerificationPDF(Timestamps[1])>>
    /\ Len(df) = 4
    /\ df[1]["datetime"] = Timestamps[1] /\ df[4]["datetime"] = Timestamps[4]
    /\ df[4]["currentCalDateTime"] = Timestamps[2]

(***************************************************************************)
(* C10: at every point of the assembly loop each source has contributed    *)
(* all of its records or none: a source whose parsing fails, also on the   *)
(* Post-Calibration line after the PreCalibration record was built, adds   *)
(* nothing, and the records of earlier sources stay as they were.          *)
(***************************************************************************)
EarlierRecordsKept ==
    /\ Len(myList') >= Len(myList)
    /\ SubSeq(myList', 1, Len(myList)) = myList
    /\ pc' = "failed" => myList' = myList

C10_AllOrNothing ==
    /\ [](Len(myList) = SumFullCount(fileList, idx))
    /\ [][EarlierRecordsKept]_vars

C10_Witness ==
    /\ pc = "failed"
    /\ idx = 1
    /\ fileList[1] = CalibrationPDF(Timestamps[1])
    /\ fileList[2] = BadPostLinePDF
    /\ err = "ValueError"
    /\ Len(myList) = 2
    /\ \A i \in 1..2 : myList[i]["datetime"] = Timestamps[1]

====
